---- MODULE Spec2Model ----
(***************************************************************************)
(* A model of run.py of questdb/play: the bootstrap script that installs   *)
(* QuestDB and JupyterLab into a temporary directory, picks free ports,    *)
(* patches the configuration, starts both services, waits until they are   *)
(* ready and tears everything down.                                        *)
(*                                                                         *)
(* Time is counted in ticks; Tick ticks make one model time unit, so that  *)
(* the 1.25 growth of the retry interval keeps its fractional part.        *)
(***************************************************************************)
EXTENDS Integers, Sequences, FiniteSets, TLC

VARIABLES
    now,          \* time.monotonic(), in ticks
    pr_pc,        \* position inside ping_retry
    pr_args,      \* the arguments ping_retry was called with
    every,        \* ping_retry's local `every` (reassigned by the backoff)
    threshold,    \* ping_retry's local `threshold`
    res,          \* ping_retry's local `res`
    outcome,      \* how ping_retry ended: its return value or the exception
    calls,        \* history: number of predicate_task() invocations
    slept,        \* history: the intervals passed to time.sleep(every)
    stub_first,   \* the stub predicate's first truthy invocation (0: never)
    os_busy,      \* the OS: ephemeral ports held by other processes
    allocated,    \* history: what each avail_port() call returned or raised
    fs,           \* the paths that exist under the temporary directory
    jar_conf,     \* lines of io/questdb/site/conf/server.conf inside questdb.jar
    server_conf,  \* text of data/conf/server.conf
    notebook,     \* play.ipynb: absent, as downloaded, or with its cell patched
    ports,        \* the port attributes of the QuestDB and JupyterLab objects
    task_pc,      \* position of each thread-pool task
    task_exc,     \* the exception each task ended with
    patch_log,    \* history: how each call of QuestDB.configure ended
    proc,         \* self.proc of each service object
    log_file,     \* self.log_file of each service object
    url,          \* JupyterLab's self.url
    os_proc,      \* the OS: each service's child process
    ready,        \* the services: QuestDB answers HTTP, JupyterLab logged its URL
    terms,        \* history: how often proc.terminate() was called per service
    atexit,       \* the functions registered with atexit, in order
    pc,           \* position of the main thread
    frame,        \* the method call the main thread is in
    exc,          \* the exception the main thread raised last
    h_log,        \* history: the method calls made on the service objects
    in_docker,    \* the flag _IN_DOCKER
    events        \* history: spawn, ready, terminate, print, rmtree, in order

retryVars == <<now, pr_pc, pr_args, every, threshold, res, outcome, calls,
               slept, stub_first>>

portVars == <<os_busy, allocated>>

fsVars == <<fs, jar_conf, server_conf, notebook>>
taskVars == <<task_pc, task_exc, patch_log>>

svcVars == <<proc, log_file, url, os_proc, ready, terms, atexit>>
mainVars == <<pc, frame, exc, h_log, in_docker, events>>

vars == <<retryVars, portVars, fsVars, ports, taskVars, svcVars, mainVars>>

\* everything ping_retry does not touch
notRetry == <<portVars, fsVars, ports, taskVars, proc, log_file, os_proc,
              ready, terms, atexit, mainVars>>
\* everything the port allocator does not touch
notPort == <<retryVars, fsVars, ports, taskVars, svcVars, mainVars>>
\* everything a thread-pool task does not touch
notTask == <<retryVars, os_busy, svcVars, mainVars>>

None == "None"

Min(a, b) == IF a <= b THEN a ELSE b

----------------------------------------------------------------------------
(* Bounds of the model. *)

MaxTimeout == 3     \* timeout_sec ranges over 0..MaxTimeout time units
MaxEvery == 3       \* every ranges over 0..MaxEvery quarter units
MaxBackoff == 2     \* backoff_till ranges over 0..MaxBackoff half units
MaxFirst == 3       \* the stub predicate first succeeds at call 1..MaxFirst
MaxPort == 2        \* the OS hands out ephemeral ports 1..MaxPort
MaxAllocs == 5      \* avail_port() calls in the allocator-only specification
MaxLines == 2       \* lines of the server.conf template inside the jar
MaxApplies == 3     \* calls of QuestDB.configure in the patcher-only specification
MaxCalls == 4       \* run()/stop() calls in the service-only specification
MaxInterrupts == 1  \* Ctrl+C presses outside the wait prompt in one run

Tick == 4 * 4       \* ticks per model time unit

Messages == {"Timed out retrying", "Timed out waiting"}

----------------------------------------------------------------------------
(* ping_retry *)

\* every * 1.25, capped: min(backoff_till, every * 1.25)
Backoff_uncapped(e, cap) == (e * 5) \div 4
Backoff(e, cap) == Min(cap, (e * 5) \div 4)

\* the interval after one sleep (the cap is skipped when backoff_till is falsy)
NextEvery(e, cap) == IF cap # 0 THEN Backoff(e, cap) ELSE e

\* what a predicate invocation yields: a value, or an exception
Truthy == [kind |-> "value", value |-> "truthy"]
Falsy == [kind |-> "value", value |-> "falsy"]

\* the predicate under test in the retry-only specification: falsy until
\* its stub_first-th invocation
StubPredicate(k) ==
    IF stub_first # 0 /\ k >= stub_first THEN Truthy ELSE Falsy

Services == {"lab", "questdb"}

JupyterLog == "tmp/jupyterlab.log"
QuestdbLog == "tmp/questdb/data/log/questdb.log"
LogPath(s) == IF s = "lab" THEN JupyterLog ELSE QuestdbLog

\* lines 120-130: the tail of the log, or a fixed text when it cannot be read
TailLog(s) == IF LogPath(s) \in fs THEN "Tail of log" ELSE "No log available."

\* lines 240-242 and 334-336: raise RuntimeError(f'... died during startup. {log}')
DiedDuringStartup(s) ==
    [kind |-> "RuntimeError", msg |-> "died during startup", svc |-> s,
     log |-> TailLog(s)]

\* a service predicate whose guard on proc.poll() is missing
ServicePredicate_unguarded(s) ==
    IF os_proc[s] = "running" /\ ready[s] THEN Truthy ELSE Falsy

\* lines 239-254 (check_http_up) and 333-344 (scan_log_for_url): raise when
\* the child has exited, else report whether the service is there yet
ServicePredicate(s) ==
    IF os_proc[s] = "exited" THEN DiedDuringStartup(s)
    ELSE IF ready[s] THEN Truthy
    ELSE Falsy

\* predicate_task(): the result of invocation number k
PredicateTask(k) ==
    CASE pr_args.predicate_task = "stub" -> StubPredicate(k)
      [] pr_args.predicate_task = "check_http_up" -> ServicePredicate("questdb")
      [] pr_args.predicate_task = "scan_log_for_url" -> ServicePredicate("lab")

\* how long one predicate invocation may take: the stub is instantaneous or
\* slow, a service predicate is one HEAD request or one read of the log
PredicateTicks == IF pr_args.predicate_task = "stub" THEN {1, Tick} ELSE {Tick}

\* raise TimeoutError(msg)
TimeoutError_default(m) == [kind |-> "TimeoutError", msg |-> "Timed out retrying"]
TimeoutError(m) == [kind |-> "TimeoutError", msg |-> m]

\* the branch taken after an attempt: return, sleep and retry, or time out
AfterAttempt_deadline_first(r, t, limit) ==
    IF t >= limit THEN "timeout" ELSE IF r = "truthy" THEN "returned" ELSE "sleep"
AfterAttempt(r, t, limit) ==
    IF r = "truthy" THEN "returned"
    ELSE IF t < limit THEN "sleep"
    ELSE "timeout"

\* no call of ping_retry yet: no arguments, no outcome
NoArgs ==
    [predicate_task |-> None, timeout_sec |-> 0, every |-> 0, msg |-> None,
     backoff_till |-> 0, lead_sleep |-> 0]
NoOutcome == [kind |-> None]

PingRetryIdle ==
    /\ pr_pc = "idle"
    /\ pr_args = NoArgs
    /\ every = 0
    /\ threshold = 0
    /\ res = None
    /\ outcome = NoOutcome
    /\ calls = 0
    /\ slept = <<>>

\* a deadline that starts to run after the lead sleep
Threshold_after_lead(begin, args) == begin + args.lead_sleep + args.timeout_sec

\* line 73: threshold = begin + timeout_sec
Threshold(begin, args) == begin + args.timeout_sec

\* lines 72-73: begin = time.monotonic(); threshold = begin + timeout_sec
PingRetryBegin(args) ==
    /\ pr_args' = args
    /\ every' = args.every
    /\ threshold' = Threshold(now, args)
    /\ pr_pc' = "lead"
    /\ res' = None
    /\ outcome' = NoOutcome
    /\ calls' = 0
    /\ slept' = <<>>
    /\ UNCHANGED <<now, stub_first>>

PingRetryEnter(args) ==
    /\ PingRetryBegin(args)
    /\ UNCHANGED <<url, notRetry>>

\* lines 74-75: if lead_sleep: time.sleep(lead_sleep)
PingRetryLead ==
    /\ pr_pc = "lead"
    /\ now' = now + pr_args.lead_sleep
    /\ pr_pc' = "call"
    /\ UNCHANGED <<pr_args, every, threshold, res, outcome, calls, slept, stub_first,
                   url, notRetry>>

\* line 77: res = predicate_task()
PingRetryCall ==
    /\ pr_pc = "call"
    /\ \E d \in PredicateTicks : now' = now + d
    /\ calls' = calls + 1
    /\ LET r == PredicateTask(calls + 1) IN
         /\ IF r.kind = "value"
            THEN /\ res' = r.value
                 /\ pr_pc' = "check"
                 /\ outcome' = outcome
            ELSE \* the predicate raised: the exception leaves ping_retry
                 /\ res' = res
                 /\ pr_pc' = "raised"
                 /\ outcome' = r
         \* line 341: scan_log_for_url stores the URL it found
         /\ url' = IF pr_args.predicate_task = "scan_log_for_url" /\ r = Truthy
                   THEN "http://localhost/lab?token="
                   ELSE url
    /\ UNCHANGED <<pr_args, every, threshold, slept, stub_first, notRetry>>

\* lines 78-85: return res / sleep / raise TimeoutError(msg)
PingRetryCheck ==
    /\ pr_pc = "check"
    /\ LET branch == AfterAttempt(res, now, threshold) IN
         /\ pr_pc' = branch
         /\ outcome' = CASE branch = "returned" -> [kind |-> "return", value |-> res]
                         [] branch = "timeout" -> TimeoutError(pr_args.msg)
                         [] OTHER -> outcome
    /\ UNCHANGED <<now, pr_args, every, threshold, res, calls, slept, stub_first,
                   url, notRetry>>

\* lines 81-83: time.sleep(every); every = min(backoff_till, every * 1.25)
PingRetrySleep ==
    /\ pr_pc = "sleep"
    /\ now' = now + every
    /\ slept' = Append(slept, every)
    /\ every' = NextEvery(every, pr_args.backoff_till)
    /\ pr_pc' = "call"
    /\ UNCHANGED <<pr_args, threshold, res, outcome, calls, stub_first, url,
                   notRetry>>

PingRetryDone == pr_pc \in {"returned", "timeout", "raised"}

----------------------------------------------------------------------------
(* avail_port *)

EphemeralPorts == 1..MaxPort

\* what a call of avail_port() yields when s.bind raises OSError, which
\* leaves avail_port: no port
Refused == 0

\* lines 54-59: a socket bound to port 0 gets any ephemeral port no socket
\* holds at that moment; the bind is refused when there is none. The socket
\* is closed before avail_port returns, so the port is free again.
AvailPort ==
    IF EphemeralPorts \ os_busy = {}
    THEN {Refused}
    ELSE EphemeralPorts \ os_busy

IsPort(r) == r \in EphemeralPorts

PortIdle ==
    /\ os_busy = {}
    /\ allocated = <<>>

\* another process binds or releases an ephemeral port
OsBind ==
    /\ \E p \in EphemeralPorts \ os_busy : os_busy' = os_busy \cup {p}
    /\ UNCHANGED <<allocated, notPort>>

OsRelease ==
    /\ \E p \in os_busy : os_busy' = os_busy \ {p}
    /\ UNCHANGED <<allocated, notPort>>

----------------------------------------------------------------------------
(* Text. A string is the sequence of its pieces; "=", "#" and "\n" are     *)
(* pieces of their own, so that splitting at them is splitting the string. *)

RECURSIVE Flatten(_)
Flatten(ss) == IF ss = <<>> THEN <<>> ELSE Head(ss) \o Flatten(Tail(ss))

\* the position of the first piece c of text t, 0 when there is none
Find(t, c) ==
    IF \E i \in 1..Len(t) : t[i] = c
    THEN CHOOSE i \in 1..Len(t) : t[i] = c /\ \A j \in 1..(i - 1) : t[j] # c
    ELSE 0

\* '=' in line
HasEq(line) == Find(line, "=") # 0

\* line.split('=')[0]
SplitEq0(line) ==
    IF HasEq(line) THEN SubSeq(line, 1, Find(line, "=") - 1) ELSE line

\* text.splitlines()
RECURSIVE SplitLines(_)
SplitLines(t) ==
    IF t = <<>> THEN <<>>
    ELSE IF Find(t, "\n") = 0 THEN <<t>>
    ELSE <<SubSeq(t, 1, Find(t, "\n") - 1)>>
            \o SplitLines(SubSeq(t, Find(t, "\n") + 1, Len(t)))

----------------------------------------------------------------------------
(* The temporary directory *)

TmpDir == "tmp"
DownloadDir == "tmp/download"
QuestdbArchive == "tmp/download/questdb.tar.gz"
QuestdbPath == "tmp/questdb"
QuestdbBin == "tmp/questdb/bin"
JarPath == "tmp/questdb/bin/questdb.jar"
DataPath == "tmp/questdb/data"
LogDir == "tmp/questdb/data/log"
ConfDir == "tmp/questdb/data/conf"
ConfPath == "tmp/questdb/data/conf/server.conf"
JreArchive == "tmp/download/jre.tar.gz"
ExtractionDir == "tmp/download/jre"
UnpackedJre == "tmp/download/jre/jdk"
QuestdbUnpacked == "tmp/questdb/questdb-no-jre-bin"
UnpackedJar == "tmp/questdb/questdb-no-jre-bin/questdb.jar"
NotebookDir == "tmp/notebooks"
PlayNotebook == "tmp/notebooks/play.ipynb"
VenvDir == "tmp/venv"
JrePath == "tmp/jre"

Parent(p) ==
    CASE p = DownloadDir -> TmpDir
      [] p = QuestdbArchive -> DownloadDir
      [] p = QuestdbPath -> TmpDir
      [] p = QuestdbBin -> QuestdbPath
      [] p = JarPath -> QuestdbBin
      [] p = DataPath -> QuestdbPath
      [] p = LogDir -> DataPath
      [] p = ConfDir -> DataPath
      [] p = ConfPath -> ConfDir
      [] p = QuestdbLog -> LogDir
      [] p = JupyterLog -> TmpDir
      [] p = NotebookDir -> TmpDir
      [] p = PlayNotebook -> NotebookDir
      [] p = VenvDir -> TmpDir
      [] p = JrePath -> TmpDir
      [] p = JreArchive -> DownloadDir
      [] p = ExtractionDir -> DownloadDir
      [] p = UnpackedJre -> ExtractionDir
      [] p = QuestdbUnpacked -> QuestdbPath
      [] p = UnpackedJar -> QuestdbUnpacked
      [] OTHER -> None

RECURSIVE Ancestors(_)
Ancestors(p) ==
    IF Parent(p) = None THEN {} ELSE {Parent(p)} \cup Ancestors(Parent(p))

\* Path.mkdir(parents=True): raises when the directory exists
MkdirParents(files, p) ==
    IF p \in files
    THEN [exc |-> "FileExistsError", fs |-> files]
    ELSE [exc |-> None, fs |-> files \cup {p} \cup Ancestors(p)]

----------------------------------------------------------------------------
(* QuestDB.configure and QuestDB.override_conf *)

NoNotebook == [state |-> "absent"]

PortNames == {"ilp", "pg", "http", "http_min", "lab"}
NoPorts == [n \in PortNames |-> 0]

\* the overrides with the HTTP and the PostgreSQL ports taken for each other
Overrides_swapped(pt) ==
    << <<"http.bind.to", <<"127.0.0.1:", ToString(pt.pg)>> >>,
       <<"pg.net.bind.to", <<"127.0.0.1:", ToString(pt.http)>> >>,
       <<"line.tcp.net.bind.to", <<"127.0.0.1:", ToString(pt.ilp)>> >>,
       <<"line.udp.bind.to", <<"127.0.0.1:", ToString(pt.ilp)>> >>,
       <<"http.min.net.bind.to", <<"127.0.0.1:", ToString(pt.http_min)>> >> >>

\* lines 177-183: the overrides, in the dict's order
Overrides(pt) ==
    << <<"http.bind.to", <<"127.0.0.1:", ToString(pt.http)>> >>,
       <<"pg.net.bind.to", <<"127.0.0.1:", ToString(pt.pg)>> >>,
       <<"line.tcp.net.bind.to", <<"127.0.0.1:", ToString(pt.ilp)>> >>,
       <<"line.udp.bind.to", <<"127.0.0.1:", ToString(pt.ilp)>> >>,
       <<"http.min.net.bind.to", <<"127.0.0.1:", ToString(pt.http_min)>> >> >>

OverrideKeys(ov) == {<<ov[i][1]>> : i \in 1..Len(ov)}

\* line 196: ('=' in line) and (line.split('=')[0] in overrides)
Overridden(line, ov) == HasEq(line) /\ SplitEq0(line) \in OverrideKeys(ov)

\* lines 195-199: what the loop writes for one template line
WriteLine(line, ov) ==
    (IF Overridden(line, ov) THEN <<"#">> \o line ELSE <<>>) \o line

\* lines 194-202: the text written to server.conf
OverrideConfText(conf_lines, ov) ==
    Flatten([i \in 1..Len(conf_lines) |-> WriteLine(conf_lines[i], ov)])
        \o <<"\n", "#", " Dynamic ports configuration", "\n">>
        \o Flatten([i \in 1..Len(ov) |-> <<ov[i][1], "=">> \o ov[i][2] \o <<"\n">>])

Tasks == {"java", "questdb"}

TaskIdle ==
    /\ task_pc = [t \in Tasks |-> "idle"]
    /\ task_exc = [t \in Tasks |-> None]
    /\ patch_log = <<>>

\* the task ends: with exception e, or normally when e is None
TaskEnd(t, e) ==
    /\ task_pc' = [task_pc EXCEPT ![t] = IF e = None THEN "done" ELSE "failed"]
    /\ task_exc' = [task_exc EXCEPT ![t] = e]

\* line 166: (self.questdb_path / 'data' / 'log').mkdir(parents=True)
ConfigureMkdir ==
    /\ task_pc.questdb = "cfg_mkdir"
    /\ LET made == MkdirParents(fs, LogDir) IN
         /\ fs' = made.fs
         /\ IF made.exc = None
            THEN /\ task_pc' = [task_pc EXCEPT !.questdb = "cfg_ilp"]
                 /\ UNCHANGED <<task_exc, patch_log, in_docker, events>>
            ELSE /\ TaskEnd("questdb", made.exc)
                 /\ patch_log' = Append(patch_log, [exc |-> made.exc, conf |-> server_conf])
    /\ UNCHANGED <<jar_conf, server_conf, notebook, ports, allocated, notTask>>

\* the port attribute each step of configure assigns, and the next step
ConfigurePortStep ==
    [cfg_ilp |-> [name |-> "ilp", next |-> "cfg_pg"],
     cfg_pg |-> [name |-> "pg", next |-> "cfg_http"],
     cfg_http |-> [name |-> "http", next |-> "cfg_http_min"],
     cfg_http_min |-> [name |-> "http_min", next |-> "cfg_override"]]

\* lines 173-176: self.ilp_port = avail_port() and the three that follow
ConfigurePort ==
    /\ task_pc.questdb \in DOMAIN ConfigurePortStep
    /\ LET step == ConfigurePortStep[task_pc.questdb] IN
       \E r \in AvailPort :
         /\ allocated' = Append(allocated, r)
         /\ IF IsPort(r)
            THEN /\ ports' = [ports EXCEPT ![step.name] = r]
                 /\ task_pc' = [task_pc EXCEPT !.questdb = step.next]
                 /\ UNCHANGED <<task_exc, patch_log, in_docker, events>>
            ELSE /\ ports' = ports
                 /\ TaskEnd("questdb", "OSError")
                 /\ patch_log' = Append(patch_log,
                        [exc |-> "OSError", conf |-> server_conf])
    /\ UNCHANGED <<fsVars, notTask>>

\* lines 186-202: read the template out of the jar, make data/conf, write
\* the patched server.conf
OverrideConf ==
    /\ task_pc.questdb = "cfg_override"
    /\ LET made == MkdirParents(fs, ConfDir)
           err == IF JarPath \notin fs THEN "FileNotFoundError" ELSE made.exc
           text == OverrideConfText(jar_conf, Overrides(ports))
       IN /\ fs' = IF JarPath \notin fs THEN fs
                   ELSE IF err = None THEN made.fs \cup {ConfPath} ELSE made.fs
          /\ server_conf' = IF err = None THEN text ELSE server_conf
          /\ TaskEnd("questdb", err)
          /\ patch_log' = Append(patch_log,
                 [exc |-> err, conf |-> IF err = None THEN text ELSE server_conf])
    /\ UNCHANGED <<jar_conf, notebook, ports, allocated, notTask>>

----------------------------------------------------------------------------
(* The service objects: QuestDB and JupyterLab *)

\* cwd= of the Popen call
Cwd(s) == IF s = "lab" THEN NotebookDir ELSE DataPath
\* the directory that holds the executable
ExeDir(s) == IF s = "lab" THEN VenvDir ELSE JrePath

NoExc == [kind |-> None]
NoFrame == [op |-> None, self |-> None, ret |-> None, catch |-> None]

SvcIdle ==
    /\ proc = [s \in Services |-> None]
    /\ log_file = [s \in Services |-> None]
    /\ url = None
    /\ os_proc = [s \in Services |-> "none"]
    /\ ready = [s \in Services |-> FALSE]
    /\ terms = [s \in Services |-> 0]
    /\ atexit = <<>>

LabTimeoutSec == 30
QuestdbTimeoutSec == 60
TicksPerSecond == 20 * Tick

\* lines 233-236 and 348-351: the arguments run() passes to ping_retry,
\* the others being the defaults of lines 64-68
ServiceArgs(s) ==
    [predicate_task |-> IF s = "lab" THEN "scan_log_for_url" ELSE "check_http_up",
     timeout_sec |-> IF s = "lab" THEN LabTimeoutSec * TicksPerSecond
                     ELSE QuestdbTimeoutSec * TicksPerSecond,
     every |-> Tick,
     msg |-> IF s = "lab"
             THEN "Timed out waiting for JupyterLab URL to become available."
             ELSE "Timed out waiting for HTTP service to come up.",
     backoff_till |-> 5 * TicksPerSecond,
     lead_sleep |-> 2 * Tick]

\* a JupyterLab.run that begins at the opening of the log
Entry_without_port(op, s) ==
    IF op = "stop" THEN "stop_check" ELSE "run_open"

\* the first statement of a method
Entry(op, s) ==
    CASE op = "stop" -> "stop_check"
      [] op = "run" /\ s = "lab" -> "run_port"
      [] op = "run" /\ s = "questdb" -> "run_open"

\* the main thread calls s.op(); it continues at ret, or at catch when the
\* method raises
Call(op, s, ret, catch) ==
    /\ frame' = [op |-> op, self |-> s, ret |-> ret, catch |-> catch]
    /\ pc' = Entry(op, s)

Return ==
    /\ pc' = frame.ret
    /\ frame' = NoFrame
    /\ exc' = exc

Raise(e) ==
    /\ pc' = frame.catch
    /\ frame' = NoFrame
    /\ exc' = e

DockerLabPort == 8888

\* lines 306-309: self.port = 8888 if _IN_DOCKER else avail_port()
RunPort ==
    /\ pc = "run_port"
    /\ IF in_docker
       THEN /\ ports' = [ports EXCEPT !.lab = DockerLabPort]
            /\ pc' = "run_open"
            /\ UNCHANGED <<allocated, frame, exc>>
       ELSE \E r \in AvailPort :
              /\ allocated' = Append(allocated, r)
              /\ IF IsPort(r)
                 THEN /\ ports' = [ports EXCEPT !.lab = r]
                      /\ pc' = "run_open"
                      /\ UNCHANGED <<frame, exc>>
                 ELSE /\ ports' = ports
                      /\ Raise([kind |-> "OSError"])
    /\ UNCHANGED <<retryVars, os_busy, fsVars, taskVars, svcVars, h_log, in_docker, events>>

\* lines 221 and 310: self.log_file = open(self.log_path, 'ab')
RunOpenLog ==
    /\ pc = "run_open"
    /\ LET s == frame.self IN
         IF Parent(LogPath(s)) \in fs
         THEN /\ log_file' = [log_file EXCEPT ![s] = "open"]
              /\ fs' = fs \cup {LogPath(s)}
              /\ pc' = "run_popen"
              /\ UNCHANGED <<frame, exc>>
         ELSE /\ Raise([kind |-> "FileNotFoundError"])
              /\ UNCHANGED <<log_file, fs>>
    /\ UNCHANGED <<retryVars, portVars, jar_conf, server_conf, notebook, ports, taskVars,
                   proc, url, os_proc, ready, terms, atexit, h_log, in_docker, events>>

\* lines 222-228 and 324-329: self.proc = subprocess.Popen(...); the spawn
\* fails when the executable or the working directory is missing, or when
\* the system refuses the new process
RunPopen ==
    /\ pc = "run_popen"
    /\ LET s == frame.self IN
       \E found \in BOOLEAN :
         IF found /\ Cwd(s) \in fs /\ ExeDir(s) \in fs
         THEN /\ proc' = [proc EXCEPT ![s] = "Popen"]
              /\ os_proc' = [os_proc EXCEPT ![s] = "running"]
              /\ events' = Append(events, [ev |-> "spawn", svc |-> s])
              /\ pc' = "run_register"
              /\ UNCHANGED <<frame, exc>>
         ELSE /\ Raise([kind |-> "OSError"])
              /\ UNCHANGED <<proc, os_proc, events>>
    /\ UNCHANGED <<retryVars, portVars, fsVars, ports, taskVars, log_file, url,
                   ready, terms, atexit, h_log, in_docker>>

\* lines 230 and 330: atexit.register(self.stop)
RunRegister ==
    /\ pc = "run_register"
    /\ atexit' = Append(atexit, frame.self)
    /\ pc' = "run_ping"
    /\ UNCHANGED <<retryVars, portVars, fsVars, ports, taskVars, proc, log_file,
                   url, os_proc, ready, terms, frame, exc, h_log, in_docker, events>>

\* lines 233-236 and 348-351: ping_retry(self.check_http_up, ...)
RunPing ==
    /\ pc = "run_ping"
    /\ PingRetryBegin(ServiceArgs(frame.self))
    /\ pc' = "run_wait"
    /\ UNCHANGED <<portVars, fsVars, ports, taskVars, svcVars, frame, exc, h_log, in_docker, events>>

\* ping_retry returned, or raised: its frame is gone, and run() returns, or
\* lets the exception out. Nothing but ping_retry reads the clock, whose
\* reference point is arbitrary: it is counted from here on again.
RunPingDone ==
    /\ pc = "run_wait"
    /\ PingRetryDone
    /\ IF pr_pc = "returned" THEN Return ELSE Raise(outcome)
    /\ pr_pc' = "idle"
    /\ pr_args' = NoArgs
    /\ every' = 0
    /\ threshold' = 0
    /\ res' = None
    /\ outcome' = NoOutcome
    /\ calls' = 0
    /\ slept' = <<>>
    /\ now' = 0
    /\ events' = IF pr_pc = "returned"
                 THEN Append(events, [ev |-> "ready", svc |-> frame.self])
                 ELSE events
    /\ UNCHANGED <<stub_first, portVars, fsVars, ports, taskVars, svcVars, h_log,
                   in_docker>>

\* lines 258-259 and 356-357: if self.proc is None: return
StopNoop ==
    /\ pc = "stop_check"
    /\ proc[frame.self] = None
    /\ Return
    /\ UNCHANGED <<retryVars, portVars, fsVars, ports, taskVars, svcVars, h_log, in_docker, events>>

\* lines 260 and 358: self.proc.terminate()
StopTerminate ==
    /\ pc = "stop_check"
    /\ proc[frame.self] # None
    /\ terms' = [terms EXCEPT ![frame.self] = @ + 1]
    /\ events' = Append(events, [ev |-> "terminate", svc |-> frame.self])
    /\ pc' = "stop_wait"
    /\ UNCHANGED <<retryVars, portVars, fsVars, ports, taskVars, proc, log_file,
                   url, os_proc, ready, atexit, frame, exc, h_log, in_docker>>

\* lines 261 and 359: self.proc.wait() returns once the child has exited
StopWait ==
    /\ pc = "stop_wait"
    /\ os_proc[frame.self] = "exited"
    /\ pc' = "stop_close"
    /\ UNCHANGED <<retryVars, portVars, fsVars, ports, taskVars, svcVars, frame,
                   exc, h_log, in_docker, events>>

\* lines 262-264 and 360-362: close the log, forget the process and the log
StopClose ==
    /\ pc = "stop_close"
    /\ log_file' = [log_file EXCEPT ![frame.self] = None]
    /\ proc' = [proc EXCEPT ![frame.self] = None]
    /\ Return
    /\ UNCHANGED <<retryVars, portVars, fsVars, ports, taskVars, url, os_proc,
                   ready, terms, atexit, h_log, in_docker, events>>

\* the child process exits: on its own, by a crash, or after SIGTERM
ProcExit(s) ==
    /\ os_proc[s] = "running"
    /\ os_proc' = [os_proc EXCEPT ![s] = "exited"]
    /\ UNCHANGED <<retryVars, portVars, fsVars, ports, taskVars, proc, log_file,
                   url, ready, terms, atexit, mainVars>>

\* the child process has come up: QuestDB answers HTTP HEAD with 200,
\* JupyterLab has written its URL to the log
ProcReady(s) ==
    /\ os_proc[s] = "running"
    /\ ~ready[s]
    /\ ready' = [ready EXCEPT ![s] = TRUE]
    /\ UNCHANGED <<retryVars, portVars, fsVars, ports, taskVars, proc, log_file,
                   url, os_proc, terms, atexit, mainVars>>

MainIdle ==
    /\ pc = "idle"
    /\ frame = NoFrame
    /\ exc = NoExc
    /\ h_log = <<>>
    /\ in_docker = FALSE
    /\ events = <<>>

----------------------------------------------------------------------------
(* The installers: install_java and QuestDB.install run on the thread pool, *)
(* setup_venv and JupyterLab.install on the main thread                     *)

\* the part of the task state an installer step leaves alone
notInstall == <<retryVars, portVars, jar_conf, server_conf, notebook, ports,
                patch_log, svcVars, mainVars>>

\* an installer step that ends in error e, or goes on to label next
TaskStep(t, e, next) ==
    IF e = None
    THEN /\ task_pc' = [task_pc EXCEPT ![t] = next]
         /\ task_exc' = task_exc
    ELSE TaskEnd(t, e)

\* tarfile extractall(path): the members, and every directory above them
ExtractAll(files, members) ==
    files \cup members \cup UNION {Ancestors(m) : m \in members}

\* line 105: extraction_dir.mkdir()
InstallJavaMkdir ==
    /\ task_pc.java = "j_mkdir"
    /\ LET e == IF DownloadDir \notin fs THEN "FileNotFoundError"
                ELSE IF ExtractionDir \in fs THEN "FileExistsError"
                ELSE None
       IN /\ fs' = IF e = None THEN fs \cup {ExtractionDir} ELSE fs
          /\ TaskStep("java", e, "j_download")
    /\ UNCHANGED notInstall

\* lines 88-90 and 107: download(url, archive_path); the request may fail
InstallJavaDownload ==
    /\ task_pc.java = "j_download"
    /\ \E served \in BOOLEAN :
         LET e == IF ~served THEN "URLError"
                  ELSE IF DownloadDir \notin fs THEN "FileNotFoundError"
                  ELSE None
         IN /\ fs' = IF e = None THEN fs \cup {JreArchive} ELSE fs
            /\ TaskStep("java", e, "j_open")
    /\ UNCHANGED notInstall

\* lines 108-112: open the archive, which may be corrupt
InstallJavaOpen ==
    /\ task_pc.java = "j_open"
    /\ \E intact \in BOOLEAN :
         LET e == IF JreArchive \notin fs THEN "FileNotFoundError"
                  ELSE IF ~intact THEN "ReadError"
                  ELSE None
         IN TaskStep("java", e, "j_extract")
    /\ UNCHANGED <<fs, notInstall>>

\* lines 110 and 113: extractall(extraction_dir), from the open archive
InstallJavaExtract ==
    /\ task_pc.java = "j_extract"
    /\ fs' = ExtractAll(fs, {UnpackedJre})
    /\ TaskStep("java", None, "j_move")
    /\ UNCHANGED notInstall

\* lines 91-92 and 114-117: shutil.move(first_dir(extraction_dir), tmpdir / 'jre')
InstallJavaMove ==
    /\ task_pc.java = "j_move"
    /\ LET e == IF ExtractionDir \notin fs THEN "FileNotFoundError"
                ELSE IF UnpackedJre \notin fs THEN "StopIteration"
                ELSE None
       IN /\ fs' = IF e = None THEN (fs \ {UnpackedJre}) \cup {JrePath} ELSE fs
          /\ TaskStep("java", e, "done")
    /\ UNCHANGED notInstall

\* lines 152-154: if not download_dir.is_dir(): download_dir.mkdir()
InstallMkdir ==
    /\ task_pc.questdb = "q_mkdir"
    /\ LET e == IF DownloadDir \notin fs /\ TmpDir \notin fs
                THEN "FileNotFoundError" ELSE None
       IN /\ fs' = IF e = None THEN fs \cup {DownloadDir} ELSE fs
          /\ TaskStep("questdb", e, "q_download")
    /\ UNCHANGED notInstall

\* lines 88-90 and 156: download(_QUESTDB_URL, archive_path)
InstallDownload ==
    /\ task_pc.questdb = "q_download"
    /\ \E served \in BOOLEAN :
         LET e == IF ~served THEN "URLError"
                  ELSE IF DownloadDir \notin fs THEN "FileNotFoundError"
                  ELSE None
         IN /\ fs' = IF e = None THEN fs \cup {QuestdbArchive} ELSE fs
            /\ TaskStep("questdb", e, "q_open")
    /\ UNCHANGED notInstall

\* line 158: with tarfile.open(archive_path) as tar
InstallOpen ==
    /\ task_pc.questdb = "q_open"
    /\ \E intact \in BOOLEAN :
         LET e == IF QuestdbArchive \notin fs THEN "FileNotFoundError"
                  ELSE IF ~intact THEN "ReadError"
                  ELSE None
         IN TaskStep("questdb", e, "q_extract")
    /\ UNCHANGED <<fs, notInstall>>

\* line 159: tar.extractall(self.questdb_path)
InstallExtract ==
    /\ task_pc.questdb = "q_extract"
    /\ fs' = ExtractAll(fs, {UnpackedJar})
    /\ TaskStep("questdb", None, "q_rename")
    /\ UNCHANGED notInstall

\* lines 160-163: rename the directory that holds questdb.jar to bin, then
\* self.configure()
InstallRename ==
    /\ task_pc.questdb = "q_rename"
    /\ LET e == IF UnpackedJar \notin fs THEN "StopIteration" ELSE None
       IN /\ fs' = IF e = None
                   THEN (fs \ {QuestdbUnpacked, UnpackedJar}) \cup {QuestdbBin, JarPath}
                   ELSE fs
          /\ TaskStep("questdb", e, "cfg_mkdir")
    /\ UNCHANGED notInstall

\* Future.result(): the exception the task ended with, raised again in the
\* caller, or None when the task returned
FutureResult_swallowed(t) == None
FutureResult(t) == task_exc[t]

TaskOver(t) == task_pc[t] \in {"done", "failed"}

\* the part of the state a step of main() itself leaves alone
notMainButEvents == <<retryVars, portVars, jar_conf, server_conf, ports, patch_log,
                      svcVars, h_log, in_docker>>
notMain == <<notMainButEvents, events>>

\* the entry point goes on to label next, or raises e
\* where an exception that leaves the entry point goes: main() is wrapped
\* by with_tmpdir, main_in_docker() is not
Unwind == IF in_docker THEN "exit" ELSE "finally"

MainStep(e, next) ==
    /\ pc' = IF e = None THEN next ELSE Unwind
    /\ exc' = IF e = None THEN exc ELSE [kind |-> e]
    /\ frame' = frame

\* line 367: tmpdir = tempfile.mkdtemp(prefix='questdb_play_')
Mkdtemp ==
    /\ pc = "start"
    /\ fs' = {TmpDir}
    /\ MainStep(None, "mkdir")
    /\ UNCHANGED <<notMain, notebook, taskVars>>

\* lines 433-434: download_dir.mkdir()
MainMkdir ==
    /\ pc = "mkdir"
    /\ fs' = fs \cup {DownloadDir}
    /\ MainStep(None, "submit")
    /\ UNCHANGED <<notMain, notebook, taskVars>>

\* lines 435-438: the two installers are handed to the thread pool
MainSubmit ==
    /\ pc = "submit"
    /\ task_pc' = [t \in Tasks |-> IF t = "java" THEN "j_mkdir" ELSE "q_mkdir"]
    /\ MainStep(None, "setup_venv")
    /\ UNCHANGED <<notMain, fs, notebook, task_exc>>

\* lines 386-402 and 439: setup_venv(tmpdir); each subprocess.run has
\* check=True
SetupVenv ==
    /\ pc = "setup_venv"
    /\ \E installed \in BOOLEAN :
         /\ fs' = fs \cup {VenvDir}
         /\ MainStep(IF installed THEN None ELSE "CalledProcessError", "java_result")
    /\ UNCHANGED <<notMain, notebook, taskVars>>

\* line 440: install_java_fut.result()
JavaResult ==
    /\ pc = "java_result"
    /\ TaskOver("java")
    /\ MainStep(FutureResult("java"), "questdb_result")
    /\ UNCHANGED <<notMain, fs, notebook, taskVars>>

\* line 441: install_questdb_fut.result()
QuestdbResult ==
    /\ pc = "questdb_result"
    /\ TaskOver("questdb")
    /\ MainStep(FutureResult("questdb"), "lab_install")
    /\ UNCHANGED <<notMain, fs, notebook, taskVars>>

\* lines 284-291 and 443: lab.install()
LabInstall ==
    /\ pc = "lab_install"
    /\ \E served \in BOOLEAN :
         /\ fs' = IF served THEN fs \cup {NotebookDir, PlayNotebook}
                  ELSE fs \cup {NotebookDir}
         /\ notebook' = IF served THEN [state |-> "downloaded"] ELSE notebook
         /\ MainStep(IF served THEN None ELSE "URLError", "lab_configure")
    /\ UNCHANGED <<notMain, taskVars>>

\* lines 297-301: the cell written into play.ipynb
PatchedNotebook(pt) ==
    [state |-> "patched", http_port |-> pt.http, ilp_port |-> pt.ilp,
     pg_port |-> pt.pg]

\* lines 293-303 and 444: lab.configure(questdb)
LabConfigure ==
    /\ pc = "lab_configure"
    /\ notebook' = PatchedNotebook(ports)
    /\ MainStep(None, "lab_run")
    /\ UNCHANGED <<notMain, fs, taskVars>>

\* lines 445 and 474: lab.run(); main_in_docker() prints next
LabRun ==
    /\ pc = "lab_run"
    /\ Call("run", "lab", IF in_docker THEN "print" ELSE "questdb_run", Unwind)
    /\ UNCHANGED <<notMain, fs, notebook, taskVars, exc>>

\* line 446: questdb.run()
QuestdbRun ==
    /\ pc = "questdb_run"
    /\ Call("run", "questdb", "print", Unwind)
    /\ UNCHANGED <<notMain, fs, notebook, taskVars, exc>>

\* lines 447-455 and 475-481: the endpoints of JupyterLab and of QuestDB
\* are printed (and in main() the browser is opened)
MainPrint ==
    /\ pc = "print"
    /\ MainStep(None, "wait_prompt")
    /\ events' = Append(events, [ev |-> "print", svc |-> None])
    /\ UNCHANGED <<notMainButEvents, fs, notebook, taskVars>>

\* lines 43-50 and 456: wait_prompt() returns when the user presses Ctrl+C
WaitPrompt ==
    /\ pc = "wait_prompt"
    /\ MainStep(None, "lab_stop")
    /\ UNCHANGED <<notMain, fs, notebook, taskVars>>

\* lines 457 and 484: lab.stop()
LabStop ==
    /\ pc = "lab_stop"
    /\ Call("stop", "lab", "questdb_stop", Unwind)
    /\ UNCHANGED <<notMain, fs, notebook, taskVars, exc>>

\* lines 458 and 485: questdb.stop(), the last statement
QuestdbStop ==
    /\ pc = "questdb_stop"
    /\ Call("stop", "questdb", Unwind, Unwind)
    /\ UNCHANGED <<notMain, fs, notebook, taskVars, exc>>

\* lines 372-374: finally: shutil.rmtree(str(tmpdir)); main() is over
Rmtree ==
    /\ pc = "finally"
    /\ fs' = {}
    /\ events' = Append(events, [ev |-> "rmtree", svc |-> None])
    /\ pc' = "exit"
    /\ UNCHANGED <<notMainButEvents, notebook, taskVars, frame, exc>>

\* line 435: the pool is never shut down, so the interpreter joins its
\* worker threads when it exits, before the atexit callbacks run
JoinWorkers ==
    /\ pc = "exit"
    /\ \A t \in Tasks : task_pc[t] = "idle" \/ TaskOver(t)
    /\ pc' = "atexit"
    /\ UNCHANGED <<notMain, fs, notebook, taskVars, frame, exc>>

\* lines 230 and 330: the registered stop() methods run last-registered
\* first; what they raise is reported and dropped
AtexitCall ==
    /\ pc = "atexit"
    /\ atexit # <<>>
    /\ Call("stop", atexit[Len(atexit)], "atexit", "atexit")
    /\ atexit' = SubSeq(atexit, 1, Len(atexit) - 1)
    /\ UNCHANGED <<retryVars, portVars, fsVars, ports, taskVars, proc, log_file,
                   url, os_proc, ready, terms, exc, h_log, in_docker, events>>

\* the process is gone
ProcessExit ==
    /\ pc = "atexit"
    /\ atexit = <<>>
    /\ pc' = "exited"
    /\ UNCHANGED <<notMain, fs, notebook, taskVars, frame, exc>>

----------------------------------------------------------------------------
(* The retry-only specification: one call of ping_retry with a stub       *)
(* predicate, for every choice of the arguments within the bounds.        *)

RetryArgs ==
    [predicate_task : {"stub"},
     timeout_sec : {t * Tick : t \in 0..MaxTimeout},
     every : {e * (Tick \div 4) : e \in 0..MaxEvery},
     msg : Messages,
     backoff_till : {b * (Tick \div 2) : b \in 0..MaxBackoff},
     lead_sleep : {0, Tick}]

InitRetry ==
    /\ now = 0
    /\ PingRetryIdle
    /\ stub_first \in 0..MaxFirst
    /\ PortIdle
    /\ fs = {}
    /\ jar_conf = <<>>
    /\ server_conf = <<>>
    /\ notebook = NoNotebook
    /\ ports = NoPorts
    /\ TaskIdle
    /\ SvcIdle
    /\ MainIdle

CallPingRetry ==
    /\ pr_pc = "idle"
    /\ \E args \in RetryArgs : PingRetryEnter(args)

NextRetry ==
    \/ CallPingRetry
    \/ PingRetryLead
    \/ PingRetryCall
    \/ PingRetryCheck
    \/ PingRetrySleep

SpecRetry == InitRetry /\ [][NextRetry]_vars

FairSpecRetry == SpecRetry /\ WF_vars(NextRetry)

----------------------------------------------------------------------------
(* The allocator-only specification: avail_port() called MaxAllocs times  *)
(* in sequence while other processes bind and release ports.              *)

InitPort ==
    /\ now = 0
    /\ PingRetryIdle
    /\ stub_first = 0
    /\ os_busy \in SUBSET EphemeralPorts
    /\ allocated = <<>>
    /\ fs = {}
    /\ jar_conf = <<>>
    /\ server_conf = <<>>
    /\ notebook = NoNotebook
    /\ ports = NoPorts
    /\ TaskIdle
    /\ SvcIdle
    /\ MainIdle

CallAvailPort ==
    /\ Len(allocated) < MaxAllocs
    /\ \E r \in AvailPort : allocated' = Append(allocated, r)
    /\ UNCHANGED <<os_busy, notPort>>

NextPort ==
    \/ CallAvailPort
    \/ OsBind
    \/ OsRelease

SpecPort == InitPort /\ [][NextPort]_vars

----------------------------------------------------------------------------
(* The patcher-only specification: QuestDB.configure() called on a freshly *)
(* extracted QuestDB, and called again after it ended, for every template  *)
(* within the bounds.                                                      *)

TemplateLines ==
    { <<"http.bind.to", "=", "0.0.0.0:9000">>,
      <<"#", "pg.net.bind.to", "=", "0.0.0.0:8812">>,
      <<"shared.worker.count", "=", "2">>,
      <<"#", " comment">>,
      <<>> }

RECURSIVE SeqsUpTo(_, _)
SeqsUpTo(S, n) ==
    IF n = 0 THEN {<<>>}
    ELSE LET shorter == SeqsUpTo(S, n - 1) IN
         shorter \cup {Append(q, x) : q \in shorter, x \in S}

Templates == SeqsUpTo(TemplateLines, MaxLines)

\* the tree QuestDB.install leaves before it calls configure
Extracted == {TmpDir, DownloadDir, QuestdbArchive, QuestdbPath, QuestdbBin, JarPath}

InitPatch ==
    /\ now = 0
    /\ PingRetryIdle
    /\ stub_first = 0
    /\ PortIdle
    /\ fs = Extracted
    /\ jar_conf \in Templates
    /\ server_conf = <<>>
    /\ notebook = NoNotebook
    /\ ports = NoPorts
    /\ task_pc = [t \in Tasks |-> IF t = "questdb" THEN "cfg_mkdir" ELSE "idle"]
    /\ task_exc = [t \in Tasks |-> None]
    /\ patch_log = <<>>
    /\ SvcIdle
    /\ MainIdle

\* configure() is called again after it returned or raised
ConfigureAgain ==
    /\ task_pc.questdb \in {"done", "failed"}
    /\ Len(patch_log) < MaxApplies
    /\ task_pc' = [task_pc EXCEPT !.questdb = "cfg_mkdir"]
    /\ task_exc' = [task_exc EXCEPT !.questdb = None]
    /\ UNCHANGED <<patch_log, fsVars, ports, allocated, notTask>>

\* override_conf() is called again with the overrides of the last call
OverrideConfAgain ==
    /\ task_pc.questdb \in {"done", "failed"}
    /\ Len(patch_log) < MaxApplies
    /\ ports.http_min # 0
    /\ task_pc' = [task_pc EXCEPT !.questdb = "cfg_override"]
    /\ task_exc' = [task_exc EXCEPT !.questdb = None]
    /\ UNCHANGED <<patch_log, fsVars, ports, allocated, notTask>>

NextPatch ==
    \/ ConfigureMkdir
    \/ ConfigurePort
    \/ OverrideConf
    \/ ConfigureAgain
    \/ OverrideConfAgain

SpecPatch == InitPatch /\ [][NextPatch]_vars

----------------------------------------------------------------------------
(* The service-only specification: run() and stop() called on one of the  *)
(* service objects of an installed and configured working area: stop() at *)
(* any time between calls, run() when the object holds no process.        *)


\* the tree after the installation and the configuration succeeded
Installed ==
    {TmpDir, DownloadDir, QuestdbArchive, QuestdbPath, QuestdbBin, JarPath,
     DataPath, LogDir, ConfDir, ConfPath, JrePath, VenvDir, NotebookDir,
     PlayNotebook}

InitService ==
    /\ now = 0
    /\ PingRetryIdle
    /\ stub_first = 0
    /\ PortIdle
    /\ fs = Installed
    /\ jar_conf = <<>>
    /\ server_conf = OverrideConfText(<<>>, Overrides([n \in PortNames |-> 1]))
    /\ notebook = PatchedNotebook([n \in PortNames |-> 1])
    /\ ports = [n \in PortNames |-> IF n = "lab" THEN 0 ELSE 1]
    /\ task_pc = [t \in Tasks |-> "done"]
    /\ task_exc = [t \in Tasks |-> None]
    /\ patch_log = <<>>
    /\ SvcIdle
    /\ pc = "h_idle"
    /\ frame = NoFrame
    /\ exc = NoExc
    /\ h_log = <<>>
    /\ in_docker = FALSE
    /\ events = <<>>

HarnessCall(op, s) ==
    /\ pc = "h_idle"
    /\ Len(h_log) < MaxCalls
    /\ \A i \in 1..Len(h_log) : h_log[i].svc = s
    /\ op = "run" => proc[s] = None
    /\ Call(op, s, "h_done", "h_done")
    /\ h_log' = Append(h_log, [op |-> op, svc |-> s, exc |-> [kind |-> "pending"]])
    /\ exc' = NoExc
    /\ UNCHANGED <<retryVars, portVars, fsVars, ports, taskVars, svcVars, in_docker,
                   events>>

HarnessRun == \E s \in Services : HarnessCall("run", s)
HarnessStop == \E s \in Services : HarnessCall("stop", s)

\* the call is over: note how it ended
HarnessDone ==
    /\ pc = "h_done"
    /\ h_log' = [h_log EXCEPT ![Len(h_log)].exc = exc]
    /\ pc' = "h_idle"
    /\ UNCHANGED <<retryVars, portVars, fsVars, ports, taskVars, svcVars, frame, exc,
                   in_docker, events>>

ChildExits == \E s \in Services : ProcExit(s)
ChildReady == \E s \in Services : ProcReady(s)

NextService ==
    \/ HarnessRun
    \/ HarnessStop
    \/ HarnessDone
    \/ RunPort
    \/ RunOpenLog
    \/ RunPopen
    \/ RunRegister
    \/ RunPing
    \/ PingRetryLead
    \/ PingRetryCall
    \/ PingRetryCheck
    \/ PingRetrySleep
    \/ RunPingDone
    \/ StopNoop
    \/ StopTerminate
    \/ StopWait
    \/ StopClose
    \/ ChildExits
    \/ ChildReady

SpecService == InitService /\ [][NextService]_vars

----------------------------------------------------------------------------
(* The program: main() under with_tmpdir, the two installers on the thread *)
(* pool, the two child processes                                           *)

\* the server.conf inside the downloaded questdb.jar
ShippedConf ==
    << <<"#", " comment">>,
       <<"http.bind.to", "=", "0.0.0.0:9000">>,
       <<"shared.worker.count", "=", "2">> >>

Init ==
    /\ now = 0
    /\ PingRetryIdle
    /\ stub_first = 0
    /\ PortIdle
    /\ fs = {}
    /\ jar_conf = ShippedConf
    /\ server_conf = <<>>
    /\ notebook = NoNotebook
    /\ ports = NoPorts
    /\ TaskIdle
    /\ SvcIdle
    /\ pc = "start"
    /\ frame = NoFrame
    /\ exc = NoExc
    /\ h_log = <<>>
    /\ in_docker = FALSE
    /\ events = <<>>

Next ==
    \/ Mkdtemp
    \/ MainMkdir
    \/ MainSubmit
    \/ SetupVenv
    \/ JavaResult
    \/ QuestdbResult
    \/ LabInstall
    \/ LabConfigure
    \/ LabRun
    \/ QuestdbRun
    \/ MainPrint
    \/ WaitPrompt
    \/ LabStop
    \/ QuestdbStop
    \/ Rmtree
    \/ JoinWorkers
    \/ AtexitCall
    \/ ProcessExit
    \/ InstallJavaMkdir
    \/ InstallJavaDownload
    \/ InstallJavaOpen
    \/ InstallJavaExtract
    \/ InstallJavaMove
    \/ InstallMkdir
    \/ InstallDownload
    \/ InstallOpen
    \/ InstallExtract
    \/ InstallRename
    \/ ConfigureMkdir
    \/ ConfigurePort
    \/ OverrideConf
    \/ RunPort
    \/ RunOpenLog
    \/ RunPopen
    \/ RunRegister
    \/ RunPing
    \/ PingRetryLead
    \/ PingRetryCall
    \/ PingRetryCheck
    \/ PingRetrySleep
    \/ RunPingDone
    \/ StopNoop
    \/ StopTerminate
    \/ StopWait
    \/ StopClose
    \/ ChildExits
    \/ ChildReady

Spec == Init /\ [][Next]_vars

----------------------------------------------------------------------------
(* The program in a container: main_in_docker()                           *)

DockerIlpPort == 9009
DockerPgPort == 8812
DockerHttpPort == 9000
DockerHttpMinPort == 9003

\* download_dir of main_in_docker, relative to the working directory
DockerDownloadDir == "download"

\* what the image holds under /opt, which stands where tmpdir stands
DockerImage == {TmpDir, VenvDir, QuestdbPath}

InitDocker ==
    /\ now = 0
    /\ PingRetryIdle
    /\ stub_first = 0
    /\ PortIdle
    /\ fs = DockerImage
    /\ jar_conf = ShippedConf
    /\ server_conf = <<>>
    /\ notebook = NoNotebook
    /\ ports = NoPorts
    /\ TaskIdle
    /\ SvcIdle
    /\ pc = "d_mkdir"
    /\ frame = NoFrame
    /\ exc = NoExc
    /\ h_log = <<>>
    /\ in_docker = TRUE
    /\ events = <<>>

\* lines 463-464: download_dir.mkdir(parents=True)
DockerMkdir ==
    /\ pc = "d_mkdir"
    /\ fs' = fs \cup {DockerDownloadDir}
    /\ MainStep(None, "d_configure")
    /\ UNCHANGED <<notMain, notebook, taskVars>>

\* lines 166-171 and 470: questdb.configure() with _IN_DOCKER set: the log
\* directory is made and the ports are the fixed ones; server.conf is not
\* written
DockerConfigure ==
    /\ pc = "d_configure"
    /\ LET made == MkdirParents(fs, LogDir) IN
         /\ fs' = made.fs
         /\ ports' = IF made.exc = None
                     THEN [ports EXCEPT !.ilp = DockerIlpPort, !.pg = DockerPgPort,
                                        !.http = DockerHttpPort,
                                        !.http_min = DockerHttpMinPort]
                     ELSE ports
         /\ MainStep(made.exc, "lab_install")
    /\ UNCHANGED <<retryVars, portVars, jar_conf, server_conf, patch_log, svcVars,
                   h_log, in_docker, events, notebook, taskVars>>

NextDocker ==
    \/ DockerMkdir
    \/ DockerConfigure
    \/ LabInstall
    \/ LabConfigure
    \/ LabRun
    \/ MainPrint
    \/ WaitPrompt
    \/ LabStop
    \/ QuestdbStop
    \/ JoinWorkers
    \/ AtexitCall
    \/ ProcessExit
    \/ RunPort
    \/ RunOpenLog
    \/ RunPopen
    \/ RunRegister
    \/ RunPing
    \/ PingRetryLead
    \/ PingRetryCall
    \/ PingRetryCheck
    \/ PingRetrySleep
    \/ RunPingDone
    \/ StopNoop
    \/ StopTerminate
    \/ StopWait
    \/ StopClose
    \/ ChildExits
    \/ ChildReady

SpecDocker == InitDocker /\ [][NextDocker]_vars

----------------------------------------------------------------------------
(* The program with a user who may press Ctrl+C at any moment *)

\* the statements of main() itself, wait_prompt() apart, which catches the
\* interrupt (lines 45-49)
MainBody ==
    {"mkdir", "submit", "setup_venv", "java_result", "questdb_result",
     "lab_install", "lab_configure", "lab_run", "questdb_run", "print",
     "lab_stop", "questdb_stop"}

MethodBody ==
    {"run_port", "run_open", "run_popen", "run_register", "run_ping", "run_wait",
     "stop_check", "stop_wait", "stop_close"}

Interrupts == Len(SelectSeq(events, LAMBDA e : e.ev = "interrupt"))

\* KeyboardInterrupt is raised in the main thread between two statements:
\* in main() or in a method it called, where it unwinds to the finally
\* clause of with_tmpdir; in that clause, where it ends shutil.rmtree; or in
\* a stop() called at exit, where it is reported and dropped. A ping_retry
\* that was going on is gone.
Interrupt ==
    /\ Interrupts < MaxInterrupts
    /\ \/ /\ pc \in MainBody \/ (pc \in MethodBody /\ frame.catch = Unwind)
          /\ pc' = Unwind
          /\ exc' = [kind |-> "KeyboardInterrupt"]
       \/ /\ pc = "finally"
          /\ pc' = "exit"
          /\ exc' = [kind |-> "KeyboardInterrupt"]
       \/ /\ pc \in MethodBody /\ frame.catch = "atexit"
          /\ pc' = "atexit"
          /\ exc' = exc
    /\ frame' = NoFrame
    /\ events' = Append(events, [ev |-> "interrupt", svc |-> None])
    /\ pr_pc' = "idle"
    /\ pr_args' = NoArgs
    /\ every' = 0
    /\ threshold' = 0
    /\ res' = None
    /\ outcome' = NoOutcome
    /\ calls' = 0
    /\ slept' = <<>>
    /\ now' = 0
    /\ UNCHANGED <<stub_first, portVars, fsVars, ports, taskVars, svcVars, h_log,
                   in_docker>>

NextInterrupt ==
    \/ Next
    \/ Interrupt

SpecInterrupt == Init /\ [][NextInterrupt]_vars

----------------------------------------------------------------------------
(* Properties of ping_retry *)

NonDecreasing(s) == \A i \in 2..Len(s) : s[i-1] <= s[i]

\* C1 as stated: for every choice of `every` and `backoff_till` the intervals
\* slept between attempts are non-decreasing and each is <= backoff_till.
C1_AnyArgsCapped ==
    pr_pc # "idle" =>
        /\ NonDecreasing(slept)
        /\ \A i \in 1..Len(slept) : slept[i] <= pr_args.backoff_till

\* C1, amended: when the initial interval is <= backoff_till the intervals
\* slept are non-decreasing and each is <= backoff_till; an initial interval
\* above a non-zero cap is slept once as it is and the later sleeps equal the
\* cap; a falsy backoff_till (0) leaves the interval unchanged.
C1_IntervalsCapped ==
    pr_pc # "idle" =>
        LET cap == pr_args.backoff_till
            e0 == pr_args.every
        IN /\ e0 <= cap =>
                /\ NonDecreasing(slept)
                /\ \A i \in 1..Len(slept) : slept[i] <= cap
           /\ (cap # 0 /\ e0 > cap) =>
                \A i \in 1..Len(slept) : slept[i] = IF i = 1 THEN e0 ELSE cap
           /\ cap = 0 => \A i \in 1..Len(slept) : slept[i] = e0

\* the interval grew and then stayed at the cap
C1_Witness ==
    /\ pr_pc # "idle"
    /\ Len(slept) >= 4
    /\ slept[1] < slept[2]
    /\ slept[Len(slept) - 1] = pr_args.backoff_till
    /\ slept[Len(slept)] = pr_args.backoff_till

\* C2 as stated: a predicate that first succeeds at its N-th invocation makes
\* ping_retry return success after exactly N invocations.
C2_AlwaysSucceedsAtN ==
    (PingRetryDone /\ stub_first # 0) =>
        (pr_pc = "returned" /\ calls = stub_first)

\* C2, amended: ping_retry returns success only at the N-th invocation and
\* never invokes the predicate after it succeeded; it ends earlier only by
\* TimeoutError, raised after a failed attempt k < N that ended at or after
\* the deadline.
C2_ExactlyNCalls ==
    stub_first # 0 =>
        /\ calls <= stub_first
        /\ pr_pc = "returned" =>
             (calls = stub_first /\ outcome = [kind |-> "return", value |-> "truthy"])
        /\ pr_pc = "timeout" => (calls < stub_first /\ now >= threshold)
        /\ pr_pc = "call" => Len(slept) = calls

C2_Witness ==
    /\ pr_pc = "returned"
    /\ stub_first = MaxFirst
    /\ calls = stub_first
    /\ Len(slept) = stub_first - 1

\* C3: with a predicate that never succeeds ping_retry ends, with
\* TimeoutError carrying the caller's message, once the deadline has passed.
C3_TimesOut ==
    (pr_pc # "idle" /\ stub_first = 0) ~>
        /\ pr_pc = "timeout"
        /\ outcome.kind = "TimeoutError"
        /\ outcome.msg = pr_args.msg
        /\ now >= threshold

C3_Witness ==
    /\ stub_first = 0
    /\ pr_pc = "timeout"
    /\ outcome.msg = "Timed out waiting"
    /\ calls >= 3
    /\ now - pr_args.timeout_sec >= 0

----------------------------------------------------------------------------
(* Properties of avail_port *)

\* C5: the ports returned by successive avail_port() calls of one run are
\* pairwise distinct.
C5_PortsDistinct ==
    \A i, j \in 1..Len(allocated) :
        (i < j /\ IsPort(allocated[i]) /\ IsPort(allocated[j]))
            => allocated[i] # allocated[j]

----------------------------------------------------------------------------
(* Properties of QuestDB.override_conf and QuestDB.configure *)

Range(q) == {q[i] : i \in 1..Len(q)}

\* an active (not commented-out) key=... line of the key k
ActiveFor(line, k) == HasEq(line) /\ SplitEq0(line) = <<k>>

\* the first call of configure() has written server.conf
Patched == Len(patch_log) >= 1 /\ patch_log[1].exc = None

\* C6: every template line whose key is overridden appears in server.conf
\* only commented out, every other template line is kept as a line of its
\* own, key=newvalue follows in a trailing block for each override, and the
\* last active line of each overridden key carries the override value.
C6_PatchedLines ==
    Patched =>
        LET ov == Overrides(ports)
            out == SplitLines(patch_log[1].conf)
            body == SubSeq(out, 1, Len(out) - Len(ov))
        IN /\ \A i \in 1..Len(jar_conf) :
                IF Overridden(jar_conf[i], ov)
                THEN /\ (<<"#">> \o jar_conf[i]) \in Range(body)
                     /\ jar_conf[i] \notin Range(body)
                ELSE jar_conf[i] \in Range(body)
           /\ Len(out) >= Len(ov)
           /\ \A k \in 1..Len(ov) :
                out[Len(out) - Len(ov) + k] = <<ov[k][1], "=">> \o ov[k][2]
           /\ \A k \in 1..Len(ov) :
                LET act == {j \in 1..Len(out) : ActiveFor(out[j], ov[k][1])}
                    last == CHOOSE j \in act : \A m \in act : m <= j
                IN act # {} /\ out[last] = <<ov[k][1], "=">> \o ov[k][2]

\* C7: applying the patcher again completes without error and leaves the
\* configuration the first application wrote.
C7_ReapplySafe ==
    \A i \in 2..Len(patch_log) :
        patch_log[1].exc = None =>
            /\ patch_log[i].exc = None
            /\ patch_log[i].conf = patch_log[1].conf

----------------------------------------------------------------------------
(* Properties of the service objects *)

\* the service whose readiness ping_retry is polling
Polled == IF pr_args.predicate_task = "scan_log_for_url" THEN "lab" ELSE "questdb"

PollingService ==
    pr_args.predicate_task \in {"scan_log_for_url", "check_http_up"}

DiedDuringStartupOf(s) ==
    [kind |-> "RuntimeError", msg |-> "died during startup", svc |-> s,
     log |-> "Tail of log"]

\* C4: when the child has exited, the next invocation of the readiness
\* predicate raises the 'died during startup' error, which leaves ping_retry
\* and run() at once: no further invocation, no further sleep, and no
\* TimeoutError.
C4_CrashAbortsPolling ==
    [][ /\ (PollingService /\ pr_pc = "call" /\ calls' = calls + 1
                 /\ os_proc[Polled] = "exited")
            => /\ pr_pc' = "raised"
               /\ outcome'.kind = "RuntimeError"
               /\ outcome'.msg = "died during startup"
               /\ outcome'.svc = Polled
        /\ (PollingService /\ pr_pc = "raised" /\ pc = "run_wait")
            => \/ UNCHANGED <<pr_pc, calls, slept, pc, exc>>
               \/ pc' = frame.catch /\ exc' = outcome
      ]_vars

\* the crash was found at the third poll, long before the deadline
C4_Witness ==
    /\ PollingService
    /\ pr_pc = "raised"
    /\ calls = 3
    /\ now < threshold
    /\ pc = "run_wait"
    /\ outcome = DiedDuringStartupOf(Polled)

LastCall == h_log[Len(h_log)]

\* C8: stop() completes without error and leaves the service with no
\* process handle and no log file handle, whenever it is called; it signals
\* and waits only on the first call after a start.
C8_StopIdempotent ==
    (pc = "h_idle" /\ Len(h_log) > 0 /\ LastCall.op = "stop") =>
        /\ LastCall.exc = NoExc
        /\ proc[LastCall.svc] = None
        /\ log_file[LastCall.svc] = None
        /\ terms[LastCall.svc] <= Len(SelectSeq(events, LAMBDA e : e.ev = "spawn"))

----------------------------------------------------------------------------
(* Properties of main *)

InstallerFailed ==
    \/ \E t \in Tasks : task_pc[t] = "failed"
    \/ exc.kind = "CalledProcessError"

InstallerErrors ==
    {task_exc[t] : t \in {u \in Tasks : task_pc[u] = "failed"}}
        \cup {"CalledProcessError"}

MainOver == pc \in {"exit", "atexit", "exited"}

\* C9: when install_java, QuestDB.install or setup_venv has failed, no
\* child process is spawned at any moment of the run, and the error main()
\* ends with is the error of a failed installer.
C9_InstallerFailureAborts ==
    InstallerFailed =>
        /\ \A s \in Services : os_proc[s] = "none" /\ proc[s] = None
        /\ pc \notin {"lab_run", "questdb_run", "run_port", "run_open",
                       "run_popen", "run_register", "run_ping", "run_wait"}
        /\ MainOver => exc.kind \in InstallerErrors

\* the QuestDB archive was corrupt while Java and the venv were installed
C9_Witness ==
    /\ pc = "exited"
    /\ task_pc.java = "done"
    /\ VenvDir \notin fs
    /\ task_pc.questdb = "failed"
    /\ task_exc.questdb = "ReadError"
    /\ exc = [kind |-> "ReadError"]
    /\ \A s \in Services : os_proc[s] = "none"

\* C10: once the orchestrating process has exited, nothing of the working
\* area is left, on every exit path.
C10_WorkingAreaRemoved == pc = "exited" => fs = {}

----------------------------------------------------------------------------
(* Properties of the order of events in a run *)

Happened(e, s) == \E i \in 1..Len(events) : events[i] = [ev |-> e, svc |-> s]

\* the position of the event in the history, 0 when it has not happened
Position(e, s) ==
    IF Happened(e, s)
    THEN CHOOSE i \in 1..Len(events) : events[i] = [ev |-> e, svc |-> s]
    ELSE 0

LastPieces(t, n) == SubSeq(t, Len(t) - n + 1, Len(t))

\* the block a run whose allocator returned a is to have at the end of
\* server.conf: ilp, pg, http and http-min are its first four results
BlockFor(a) ==
    <<"\n", "#", " Dynamic ports configuration", "\n",
      "http.bind.to", "=", "127.0.0.1:", ToString(a[3]), "\n",
      "pg.net.bind.to", "=", "127.0.0.1:", ToString(a[2]), "\n",
      "line.tcp.net.bind.to", "=", "127.0.0.1:", ToString(a[1]), "\n",
      "line.udp.bind.to", "=", "127.0.0.1:", ToString(a[1]), "\n",
      "http.min.net.bind.to", "=", "127.0.0.1:", ToString(a[4]), "\n">>

\* C11: from the moment a service process is spawned, server.conf ends with
\* the override block that binds http, pg, ilp and http-min to the ports the
\* allocator returned in this run, which are the ports of the QuestDB
\* object, and the patched notebook cell declares the same http, ilp and pg
\* ports.
C11_ArtifactsReflectPorts ==
    (\E s \in Services : Happened("spawn", s)) =>
        /\ Len(allocated) >= 4
        /\ ports.ilp = allocated[1] /\ ports.pg = allocated[2]
        /\ ports.http = allocated[3] /\ ports.http_min = allocated[4]
        /\ Len(server_conf) >= Len(BlockFor(allocated))
        /\ LastPieces(server_conf, Len(BlockFor(allocated))) = BlockFor(allocated)
        /\ notebook = [state |-> "patched", http_port |-> allocated[3],
                       ilp_port |-> allocated[1], pg_port |-> allocated[2]]

\* both services were spawned in a run whose ports are not all the same
C11_Witness ==
    /\ Happened("spawn", "lab")
    /\ Happened("spawn", "questdb")
    /\ ports.http # ports.pg
    /\ ports.ilp # ports.http

\* C12: a service started later is always stopped before a service started
\* earlier: when the earlier one has been sent the termination signal, the
\* later one had been sent it before.
C12_ReverseStopOrder ==
    \A s, t \in Services :
        (/\ Happened("spawn", s) /\ Happened("spawn", t)
         /\ Position("spawn", s) < Position("spawn", t)
         /\ Happened("terminate", s))
        => /\ Happened("terminate", t)
           /\ Position("terminate", t) < Position("terminate", s)

\* C13 (its part on the child processes): when the user has pressed Ctrl+C
\* at some point of the run, every child process that was spawned has been
\* terminated by the time the orchestrating process has exited.
C13_InterruptStopsChildren ==
    (pc = "exited" /\ Happened("interrupt", None)) =>
        \A s \in Services : Happened("spawn", s) => os_proc[s] = "exited"

\* C14: in no reachable state has the working area been deleted while a
\* spawned child process is still running.
C14_ChildrenStoppedBeforeRmtree ==
    Happened("rmtree", None) => \A s \in Services : os_proc[s] # "running"

\* setup_venv has returned
VenvReady ==
    /\ pc \notin {"start", "mkdir", "submit", "setup_venv"}
    /\ exc.kind # "CalledProcessError"

\* C15: the port allocator has been called only if install_java,
\* QuestDB.install and setup_venv have all completed.
C15_PortsAfterInstallation ==
    allocated # <<>> =>
        /\ task_pc.java = "done"
        /\ task_pc.questdb = "done"
        /\ VenvReady

\* C16: a step that spawns a child process finds every port of the run
\* allocated and assigned, server.conf written and the notebook patched; a
\* step that allocates or assigns a port finds no child process spawned
\* yet; and a readiness predicate is invoked only on a service whose
\* process has been spawned.
C16_PortsThenSpawnThenPoll ==
    [][ /\ (\E s \in Services : os_proc[s] = "none" /\ os_proc'[s] = "running")
            => /\ Len(allocated) = Cardinality(PortNames)
               /\ \A i \in 1..Len(allocated) : allocated[i] \in EphemeralPorts
               /\ \A n \in PortNames : ports[n] \in EphemeralPorts
               /\ ConfPath \in fs
               /\ Len(patch_log) = 1 /\ patch_log[1].exc = None
               /\ PlayNotebook \in fs
               /\ notebook.state = "patched"
        /\ (allocated' # allocated \/ ports' # ports)
            => \A s \in Services : os_proc[s] = "none"
        /\ (PollingService /\ calls' = calls + 1)
            => Happened("spawn", Polled)
      ]_vars

\* QuestDB, spawned second, is being polled for the second time
C16_Witness ==
    /\ Happened("spawn", "lab")
    /\ Happened("spawn", "questdb")
    /\ PollingService /\ Polled = "questdb"
    /\ calls = 2

\* C17: the error of a readiness failure that main() ends with, the crash
\* error as well as the timeout error, carries the tail of the service's log.
C17_FailureCarriesLogTail ==
    exc.kind \in {"RuntimeError", "TimeoutError"} =>
        /\ "log" \in DOMAIN exc
        /\ exc.log = "Tail of log"

\* C18: the endpoint summary, which names JupyterLab and QuestDB, has been
\* printed only if each of the two has been started and its readiness
\* check has succeeded, in main() and in main_in_docker().
C18_PrintedOnlyWhenAllReady ==
    Happened("print", None) => \A s \in Services : Happened("ready", s)

----------------------------------------------------------------------------
(* The lifecycle of a service object *)

ofService(s) == SelectSeq(events, LAMBDA e : e.svc = s)

\* the lifecycle state a service enters with an event
Entered(e) ==
    CASE e.ev = "spawn" -> "Starting"
      [] e.ev = "ready" -> "Ready"
      [] e.ev = "terminate" -> "Stopped"

Rank(l) ==
    CASE l = "Installed" -> 1
      [] l = "Starting" -> 2
      [] l = "Ready" -> 3
      [] l = "Stopped" -> 4

\* C19: under any sequence of run() and stop() calls a service's lifecycle
\* state only moves forward along Installed, Starting, Ready, Stopped: of
\* two states it entered one after the other the later is not the earlier
\* in that order, and it has entered Ready only from Starting.
C19_LifecycleForward ==
    \A s \in Services :
        \A i \in 1..Len(ofService(s)) :
            LET before == IF i = 1 THEN "Installed"
                          ELSE Entered(ofService(s)[i - 1])
                after == Entered(ofService(s)[i])
            IN /\ Rank(after) >= Rank(before)
               /\ after = "Ready" => before = "Starting"

----------------------------------------------------------------------------
(* Properties of avail_port when the bind is refused *)

\* C20: a refused bind is retried inside the allocator: every call of
\* avail_port() hands its caller a port, never the error of the bind.
C20_BindRefusalRetried ==
    \A i \in 1..Len(allocated) : IsPort(allocated[i])

----------------------------------------------------------------------------
(* Properties of the deadline of ping_retry *)

\* C21: the deadline of ping_retry is timeout_sec after the entry of the call
\* (here at time 0), the lead sleep included; ping_retry ends only after the
\* predicate was invoked at least once; it raises TimeoutError only after
\* an attempt that failed and was over at or after the deadline; it sleeps
\* again only after a failed attempt over before the deadline; and an
\* attempt that succeeded is never answered with TimeoutError, however late.
C21_DeadlineAfterAttempt ==
    pr_pc # "idle" =>
        /\ threshold = pr_args.timeout_sec
        /\ PingRetryDone => calls >= 1
        /\ pr_pc = "timeout" =>
              /\ res = "falsy"
              /\ now >= threshold
              /\ outcome = [kind |-> "TimeoutError", msg |-> pr_args.msg]
        /\ pr_pc = "sleep" => res = "falsy" /\ now < threshold
        /\ (pr_pc \in {"returned", "timeout", "sleep"} /\ res = "truthy")
              => pr_pc = "returned"

\* timeout_sec is not more than the lead sleep, so the first attempt began
\* after the deadline; it succeeded and ping_retry returned
C21_Witness ==
    /\ pr_pc = "returned"
    /\ pr_args.lead_sleep > 0
    /\ pr_args.timeout_sec <= pr_args.lead_sleep
    /\ calls = 1
    /\ now > threshold
    /\ outcome = [kind |-> "return", value |-> "truthy"]

----------------------------------------------------------------------------
(* Properties of the log file handle of a service *)

\* C22: between the calls of its methods, and after a run() whose spawn
\* failed too, a service holds an open log file exactly when it holds a
\* process handle; after a stop() no service without a process handle has
\* an open log file.
C22_LogOpenIffProc ==
    pc = "h_idle" =>
        \A s \in Services : (log_file[s] = "open") <=> (proc[s] # None)

====
